---- MODULE Spec2Model ----
(***************************************************************************)
(* Capsule codec (neqo-http3/src/frames/capsule.rs) and the CONNECT-UDP    *)
(* frame adapter (neqo-http3/src/frames/connect_udp_frame.rs).             *)
(*                                                                         *)
(* A peer puts capsules on the wire, the transport delivers the bytes in   *)
(* chunks into the receiver's buffer, and the receiver runs                *)
(* Capsule::decode (on a fresh or a continuing cursor) or Frame::decode    *)
(* over the buffer.                                                        *)
(*                                                                         *)
(* A byte is a number in 0..255.  A u64 is its eight big-endian bytes      *)
(* (u64::to_be_bytes), so that lengths up to 2^62-1 are kept exactly.      *)
(***************************************************************************)
EXTENDS Integers, Sequences, FiniteSets, TLC

VARIABLES
    usizeBytes,  \* size_of::<usize>() of the build target: 4 or 8
    sent,        \* the capsules the peer has put on the wire, in order
    wire,        \* bytes in flight, not yet delivered
    buf,         \* the receiver's accumulated buffer
    decoder,     \* the receiver's cursor over buf (Decoder), if one is live
    call         \* the last decode call: operation, arguments, result

vars == <<usizeBytes, sent, wire, buf, decoder, call>>

----------------------------------------------------------------------------
(* Bounds of the model *)

MaxCapsules == 2
MaxPayloadLen == 2
LargeLen == 64

----------------------------------------------------------------------------
(* Program constants *)

\* capsule.rs: pub const CAPSULE_TYPE_DATAGRAM: u64 = 0x00
CAPSULE_TYPE_DATAGRAM == 0

\* connect_udp_frame.rs: pub const CAPSULE_TYPE_DATAGRAM: HFrameType = HFrameType(0x00)
FRAME_TYPE_DATAGRAM == 0

----------------------------------------------------------------------------
(* u64 and usize values *)

Pow2(k) == IF k = 0 THEN 1 ELSE IF k = 1 THEN 2 ELSE IF k = 2 THEN 4 ELSE 8

ZeroBytes(n) == [i \in 1..n |-> 0]

\* The u64 whose value is the big-endian number bs (at most 8 bytes).
U64FromBytes(bs) == ZeroBytes(8 - Len(bs)) \o bs

\* The u64 of a number below 2^31.
U64(n) == <<0, 0, 0, 0, n \div 16777216, (n \div 65536) % 256, (n \div 256) % 256, n % 256>>

\* v < 2^31: the value is a number of the model.
IsSmall(v) == /\ \A i \in 1..4 : v[i] = 0
              /\ v[5] < 128

SmallValue(v) == v[5] * 16777216 + v[6] * 65536 + v[7] * 256 + v[8]

\* usize::try_from(v: u64): Ok iff v <= usize::MAX of a ub-byte usize.
UsizeTryFromOk(v, ub) == \A i \in 1..(8 - ub) : v[i] = 0

\* n < v, for a number n below 2^31 and a u64 or usize v.
LessThan(n, v) == IF IsSmall(v) THEN n < SmallValue(v) ELSE TRUE

----------------------------------------------------------------------------
(* neqo_common::Decoder: a cursor (buffer b, offset off) over a byte slice.  *)
(* Each read returns whether it succeeded, the value and the new offset.     *)

Remaining(b, off) == Len(b) - off

\* Decoder::decode(n): the next n bytes, or None when fewer remain.
Decode(b, off, n) ==
    IF Remaining(b, off) < n
    THEN [ok |-> FALSE, val |-> <<>>, off |-> off]
    ELSE [ok |-> TRUE, val |-> SubSeq(b, off + 1, off + n), off |-> off + n]

\* Decoder::skip(n): advances by n; it panics when fewer than n bytes remain.
Skip(b, off, n) ==
    IF Remaining(b, off) < n
    THEN [ok |-> FALSE, off |-> off]
    ELSE [ok |-> TRUE, off |-> off + n]

\* Decoder::decode_varint(): the two high bits of the first byte give the
\* length (1, 2, 4 or 8 bytes), the other 6 bits and the following bytes the
\* big-endian value.  None when the varint is not wholly buffered.
DecodeVarint(b, off) ==
    LET b1 == Decode(b, off, 1) IN
    IF ~b1.ok
    THEN [ok |-> FALSE, val |-> U64(0), off |-> off]
    ELSE LET n == Pow2(b1.val[1] \div 64)
             rest == Decode(b, b1.off, n - 1)
         IN  IF ~rest.ok
             THEN [ok |-> FALSE, val |-> U64(0), off |-> b1.off]
             ELSE [ok |-> TRUE,
                   val |-> U64FromBytes(<<b1.val[1] % 64>> \o rest.val),
                   off |-> rest.off]

----------------------------------------------------------------------------
(* neqo_common::Encoder *)

\* Encoder::encode_varint(v), for v below 2^31: the shortest of the 1, 2, 4
\* and 8 byte forms that holds v.
EncodeVarint(v) ==
    IF v < 64 THEN <<v>>
    ELSE IF v < 16384 THEN <<64 + (v \div 256), v % 256>>
    ELSE IF v < 1073741824
         THEN <<128 + (v \div 16777216), (v \div 65536) % 256, (v \div 256) % 256, v % 256>>
    ELSE <<192, 0, 0, 0, v \div 16777216, (v \div 65536) % 256, (v \div 256) % 256, v % 256>>

\* Encoder::encode_vvec(v): the length of v as a varint, then v.
EncodeVvec(v) == EncodeVarint(Len(v)) \o v

----------------------------------------------------------------------------
(* Results: Res<Option<Capsule>> and Res<Option<Frame>> *)

OkNone == [kind |-> "OkNone", variant |-> "", payload |-> <<>>]
OkSomeCapsule(p) == [kind |-> "OkSome", variant |-> "Capsule::Datagram", payload |-> p]
OkSomeFrame(p) == [kind |-> "OkSome", variant |-> "Frame::Datagram", payload |-> p]
ErrHttpFrame == [kind |-> "Err", variant |-> "Error::HttpFrame", payload |-> <<>>]
Panic == [kind |-> "Panic", variant |-> "", payload |-> <<>>]
NoResult == [kind |-> "NoResult", variant |-> "", payload |-> <<>>]

----------------------------------------------------------------------------
(* Capsule *)

\* Capsule::capsule_type
CapsuleType(capsule) == CAPSULE_TYPE_DATAGRAM

\* As CapsuleEncode, the payload written with encode instead of encode_vvec:
\* no length.
CapsuleEncodeNoLength(payload) ==
    EncodeVarint(CapsuleType([payload |-> payload])) \o payload

\* Capsule::encode of Capsule::Datagram { payload }
CapsuleEncode(payload) ==
    EncodeVarint(CapsuleType([payload |-> payload])) \o EncodeVvec(payload)

\* As CapsuleDecodePayload, an unknown capsule left unskipped.
CapsuleDecodePayloadNoSkip(b, off, capsule_type, capsule_length_usize) ==
    IF capsule_type = U64(CAPSULE_TYPE_DATAGRAM)
    THEN LET payload == Decode(b, off, capsule_length_usize) IN
         IF ~payload.ok
         THEN [res |-> ErrHttpFrame, off |-> payload.off]
         ELSE [res |-> OkSomeCapsule(payload.val), off |-> payload.off]
    ELSE [res |-> OkNone, off |-> off]

\* As CapsuleDecodePayload, an unknown capsule type reported as an error.
CapsuleDecodePayloadUnknownErr(b, off, capsule_type, capsule_length_usize) ==
    IF capsule_type = U64(CAPSULE_TYPE_DATAGRAM)
    THEN LET payload == Decode(b, off, capsule_length_usize) IN
         IF ~payload.ok
         THEN [res |-> ErrHttpFrame, off |-> payload.off]
         ELSE [res |-> OkSomeCapsule(payload.val), off |-> payload.off]
    ELSE [res |-> ErrHttpFrame, off |-> off]

\* As CapsuleDecodePayload, a Datagram taking all that remains in the cursor
\* as its payload.
CapsuleDecodePayloadRest(b, off, capsule_type, capsule_length_usize) ==
    IF capsule_type = U64(CAPSULE_TYPE_DATAGRAM)
    THEN LET payload == Decode(b, off, Remaining(b, off)) IN
         [res |-> OkSomeCapsule(payload.val), off |-> payload.off]
    ELSE LET skipped == Skip(b, off, capsule_length_usize) IN
         IF ~skipped.ok
         THEN [res |-> Panic, off |-> skipped.off]
         ELSE [res |-> OkNone, off |-> skipped.off]

\* Capsule::decode, lines 55-66: the capsule is wholly buffered; a Datagram's
\* payload is read and returned, any other capsule is skipped.
CapsuleDecodePayload(b, off, capsule_type, capsule_length_usize) ==
    IF capsule_type = U64(CAPSULE_TYPE_DATAGRAM)
    THEN LET payload == Decode(b, off, capsule_length_usize) IN
         IF ~payload.ok
         THEN [res |-> ErrHttpFrame, off |-> payload.off]
         ELSE [res |-> OkSomeCapsule(payload.val), off |-> payload.off]
    ELSE LET skipped == Skip(b, off, capsule_length_usize) IN
         IF ~skipped.ok
         THEN [res |-> Panic, off |-> skipped.off]
         ELSE [res |-> OkNone, off |-> skipped.off]

\* As CapsuleDecodeLength, without the comparison with what is buffered.
CapsuleDecodeLengthNoBufferCheck(b, off, capsule_type, capsule_length, ub) ==
    IF ~UsizeTryFromOk(capsule_length, ub)
    THEN [res |-> ErrHttpFrame, off |-> off]
    ELSE IF ~IsSmall(capsule_length)
    THEN [res |-> IF capsule_type = U64(CAPSULE_TYPE_DATAGRAM) THEN ErrHttpFrame ELSE Panic,
          off |-> off]
    ELSE CapsuleDecodePayload(b, off, capsule_type, SmallValue(capsule_length))

\* As CapsuleDecodeLength, the length converted with `as usize`, which keeps
\* the low bytes.
CapsuleDecodeLengthCast(b, off, capsule_type, capsule_length, ub) ==
    LET truncated == [i \in 1..8 |-> IF i <= 8 - ub THEN 0 ELSE capsule_length[i]] IN
    IF LessThan(Remaining(b, off), truncated)
    THEN [res |-> OkNone, off |-> off]
    ELSE CapsuleDecodePayload(b, off, capsule_type, SmallValue(truncated))

\* As CapsuleDecodeLength, the comparison written <= instead of <.
CapsuleDecodeLengthOffByOne(b, off, capsule_type, capsule_length, ub) ==
    IF ~UsizeTryFromOk(capsule_length, ub)
    THEN [res |-> ErrHttpFrame, off |-> off]
    ELSE IF LessThan(Remaining(b, off) - 1, capsule_length)
    THEN [res |-> OkNone, off |-> off]
    ELSE CapsuleDecodePayload(b, off, capsule_type, SmallValue(capsule_length))

\* As CapsuleDecodeLength, a payload not yet buffered reported as an error.
CapsuleDecodeLengthErrOnShort(b, off, capsule_type, capsule_length, ub) ==
    IF ~UsizeTryFromOk(capsule_length, ub)
    THEN [res |-> ErrHttpFrame, off |-> off]
    ELSE IF LessThan(Remaining(b, off), capsule_length)
    THEN [res |-> ErrHttpFrame, off |-> off]
    ELSE CapsuleDecodePayload(b, off, capsule_type, SmallValue(capsule_length))

\* Capsule::decode, lines 48-53: the declared length is converted to usize
\* and compared with what is buffered.
CapsuleDecodeLength(b, off, capsule_type, capsule_length, ub) ==
    IF ~UsizeTryFromOk(capsule_length, ub)
    THEN [res |-> ErrHttpFrame, off |-> off]
    ELSE IF LessThan(Remaining(b, off), capsule_length)
    THEN [res |-> OkNone, off |-> off]
    ELSE CapsuleDecodePayload(b, off, capsule_type, SmallValue(capsule_length))

\* Capsule::decode(decoder) on the cursor (b, off), built for a ub-byte usize:
\* the result and the cursor's offset afterwards.
CapsuleDecode(b, off, ub) ==
    LET capsule_type == DecodeVarint(b, off) IN
    IF ~capsule_type.ok
    THEN [res |-> OkNone, off |-> capsule_type.off]
    ELSE LET capsule_length == DecodeVarint(b, capsule_type.off) IN
         IF ~capsule_length.ok
         THEN [res |-> OkNone, off |-> capsule_length.off]
         ELSE CapsuleDecodeLength(b, capsule_length.off, capsule_type.val,
                                  capsule_length.val, ub)

----------------------------------------------------------------------------
(* Frame (connect_udp_frame.rs) *)

\* Frame::is_known_type
IsKnownType(frame_type) == frame_type = FRAME_TYPE_DATAGRAM

\* As FrameDecode, without the test of the frame type.
FrameDecodeAnyType(frame_type, frame_len, present, data, ub) ==
    IF present
    THEN LET capsule == CapsuleDecode(data, 0, ub).res IN
         IF capsule.kind \notin {"OkSome", "OkNone"}
         THEN capsule
         ELSE IF capsule.kind = "OkSome"
         THEN OkSomeFrame(capsule.payload)
         ELSE OkNone
    ELSE OkNone

\* As FrameDecode, the codec's error dropped (if let Ok(Some(capsule)) = ...).
FrameDecodeSwallowErr(frame_type, frame_len, present, data, ub) ==
    IF frame_type = FRAME_TYPE_DATAGRAM /\ present
    THEN LET capsule == CapsuleDecode(data, 0, ub).res IN
         IF capsule.kind = "OkSome"
         THEN OkSomeFrame(capsule.payload)
         ELSE OkNone
    ELSE OkNone

\* Frame::decode(frame_type, _frame_len, data); data is Some(bytes) when
\* present and None otherwise.
FrameDecode(frame_type, frame_len, present, data, ub) ==
    IF frame_type = FRAME_TYPE_DATAGRAM
    THEN IF present
         THEN LET capsule == CapsuleDecode(data, 0, ub).res IN
              IF capsule.kind \notin {"OkSome", "OkNone"}
              THEN capsule
              ELSE IF capsule.kind = "OkSome"
              THEN OkSomeFrame(capsule.payload)
              ELSE OkNone
         ELSE OkNone
    ELSE OkNone

----------------------------------------------------------------------------
(* What the peer can put on the wire *)

\* The payload of n bytes: 0xAB, 0xAC, ... (0xAB reads as the start of a
\* four-byte varint).
Payload(n) == [i \in 1..n |-> 170 + i]

\* The payloads sent: the empty one and the longest.
Payloads == {Payload(0), Payload(MaxPayloadLen)}

\* A payload long enough for its length to need a two-byte varint.
LargePayload == [i \in 1..LargeLen |-> 66]

\* Capsule types as varints on the wire, with the value each one encodes:
\* Datagram, and the unknown type 0x17 in one byte and in two.
Type0 == [enc |-> <<0>>, val |-> 0]
Type17 == [enc |-> <<23>>, val |-> 23]
Type17Long == [enc |-> <<64, 23>>, val |-> 23]

\* The headers of the peer's complete capsules of an unknown type, for a
\* payload of n bytes (n below 64): type and length as varints of one byte
\* each, or of two bytes each.
Headers(n) ==
    { [t |-> Type17, l |-> <<n>>],
      [t |-> Type17Long, l |-> <<64, n>>] }

HugeTypes == {Type0, Type17}
HugeTail == <<171>>

\* Eight-byte lengths no payload of the model reaches: 2^32-1, which a
\* 4-byte usize still holds, and 2^32 and 2^62-1, which it does not.
HugeLenVectors ==
    { [enc |-> <<192, 0, 0, 0, 255, 255, 255, 255>>, fits4 |-> TRUE],
      [enc |-> <<192, 0, 0, 1, 0, 0, 0, 0>>, fits4 |-> FALSE],
      [enc |-> <<255, 255, 255, 255, 255, 255, 255, 255>>, fits4 |-> FALSE] }

\* The record kept of a capsule put on the wire: who wrote it, its type, its
\* declared length (-1: one of the huge ones), whether that length fits a
\* 4-byte usize, the payload bytes that follow, the header's size.
SentCapsule(src, type, declared, fits4, payload, hdr) ==
    [src |-> src, type |-> type, declared |-> declared, fits4 |-> fits4,
     payload |-> payload, hdr |-> hdr]

Complete(c) == c.declared = Len(c.payload)
Size(c) == c.hdr + Len(c.payload)

RECURSIVE SizeOfFirst(_, _)
SizeOfFirst(cs, k) == IF k = 0 THEN 0 ELSE SizeOfFirst(cs, k - 1) + Size(cs[k])

CanSend == /\ Len(sent) < MaxCapsules
           /\ \A i \in 1..Len(sent) : Complete(sent[i])

----------------------------------------------------------------------------
(* State *)

UsizeWidths == {4, 8}

NoDecoder == [live |-> FALSE, offset |-> 0, calls |-> 0]

NoCall ==
    [op |-> "none", ftype |-> 0, flen |-> 0, present |-> FALSE, known |-> FALSE,
     res |-> NoResult]

CapsuleCall(op, res) ==
    [op |-> op, ftype |-> 0, flen |-> 0, present |-> FALSE, known |-> FALSE,
     res |-> res]

MaxCalls == MaxCapsules

\* Frame types the outer dispatcher hands over: Datagram and two others.
FrameTypes == {0, 1, 153}

Init ==
    /\ usizeBytes \in UsizeWidths
    /\ sent = <<>>
    /\ wire = <<>>
    /\ buf = <<>>
    /\ decoder = NoDecoder
    /\ call = NoCall

----------------------------------------------------------------------------
(* The peer *)

\* A Datagram capsule written by Capsule::encode.
Encode(payload) ==
    /\ CanSend
    /\ LET bytes == CapsuleEncode(payload) IN
       /\ wire' = wire \o bytes
       /\ sent' = Append(sent, SentCapsule("encode", 0, Len(payload), TRUE, payload,
                                           Len(bytes) - Len(payload)))
    /\ UNCHANGED <<usizeBytes, buf, decoder, call>>

\* A complete capsule of an unknown type written by the peer, its varints
\* not necessarily the shortest.
SendCapsule(h, payload) ==
    /\ CanSend
    /\ wire' = wire \o h.t.enc \o h.l \o payload
    /\ sent' = Append(sent, SentCapsule("peer", h.t.val, Len(payload), TRUE, payload,
                                        Len(h.t.enc) + Len(h.l)))
    /\ UNCHANGED <<usizeBytes, buf, decoder, call>>

\* A capsule that declares a huge length, followed by a byte.
SendHuge(t, l, payload) ==
    /\ CanSend
    /\ wire' = wire \o t.enc \o l.enc \o payload
    /\ sent' = Append(sent, SentCapsule("peer", t.val, -1, l.fits4, payload,
                                        Len(t.enc) + Len(l.enc)))
    /\ UNCHANGED <<usizeBytes, buf, decoder, call>>

----------------------------------------------------------------------------
(* The transport *)

\* The next n bytes arrive.  The buffer is extended, which ends the borrow
\* of any cursor over it.
Receive(n) ==
    /\ n \in 1..Len(wire)
    /\ buf' = buf \o SubSeq(wire, 1, n)
    /\ wire' = SubSeq(wire, n + 1, Len(wire))
    /\ decoder' = NoDecoder
    /\ call' = NoCall
    /\ UNCHANGED <<usizeBytes, sent>>

----------------------------------------------------------------------------
(* The receiver *)

\* Decoder::from(buf) and Capsule::decode on it.
FreshDecode ==
    /\ LET r == CapsuleDecode(buf, 0, usizeBytes) IN
       /\ decoder' = [live |-> TRUE, offset |-> r.off, calls |-> 1]
       /\ call' = CapsuleCall("fresh", r.res)
    /\ UNCHANGED <<usizeBytes, sent, wire, buf>>

\* Capsule::decode again on the same cursor.
NextDecode ==
    /\ decoder.live
    /\ decoder.calls < MaxCalls
    /\ LET r == CapsuleDecode(buf, decoder.offset, usizeBytes) IN
       /\ decoder' = [live |-> TRUE, offset |-> r.off, calls |-> decoder.calls + 1]
       /\ call' = CapsuleCall("next", r.res)
    /\ UNCHANGED <<usizeBytes, sent, wire, buf>>

\* Frame::decode(frame_type, frame_len, data) with the buffer as data, or
\* with no data; its cursor is its own.
FrameDecodeCall(frame_type, frame_len, present) ==
    /\ call' = [op |-> "frame", ftype |-> frame_type, flen |-> frame_len,
                present |-> present, known |-> FALSE,
                res |-> FrameDecode(frame_type, frame_len, present,
                                    IF present THEN buf ELSE <<>>, usizeBytes)]
    /\ decoder' = NoDecoder
    /\ UNCHANGED <<usizeBytes, sent, wire, buf>>

\* Frame::is_known_type(frame_type), asked by the outer dispatcher when a
\* frame starts; no cursor of an earlier frame is kept.
IsKnownTypeCall(frame_type) ==
    /\ call' = [op |-> "is_known_type", ftype |-> frame_type, flen |-> 0,
                present |-> FALSE, known |-> IsKnownType(frame_type),
                res |-> NoResult]
    /\ decoder' = NoDecoder
    /\ UNCHANGED <<usizeBytes, sent, wire, buf>>

----------------------------------------------------------------------------

PeerSends ==
    \/ \E payload \in Payloads : Encode(payload)
    \/ \E payload \in Payloads :
           \E h \in Headers(Len(payload)) : SendCapsule(h, payload)
    \/ \E t \in HugeTypes, l \in HugeLenVectors : SendHuge(t, l, HugeTail)

Arrives == \E n \in 1..Len(wire) : Receive(n)

FrameCalls ==
    \E frame_type \in FrameTypes, frame_len \in {Len(buf), Len(buf) + 1},
       present \in BOOLEAN :
        FrameDecodeCall(frame_type, frame_len, present)

KnownTypeCalls == \E frame_type \in FrameTypes : IsKnownTypeCall(frame_type)

\* Capsule::encode of the payloads and of one whose length takes two bytes;
\* each capsule arrives whole.
NextRoundTrip ==
    \/ \E payload \in Payloads \cup {LargePayload} : Encode(payload)
    \/ Receive(Len(wire))
    \/ FreshDecode
    \/ NextDecode

Next ==
    \/ PeerSends
    \/ Arrives
    \/ FreshDecode
    \/ NextDecode
    \/ FrameCalls
    \/ KnownTypeCalls

Spec == Init /\ [][Next]_vars

SpecRoundTrip == Init /\ [][NextRoundTrip]_vars

----------------------------------------------------------------------------
(* Properties *)

\* The last call was Capsule::decode on a fresh cursor over the buffer.
Fresh == call.op = "fresh"

\* The declared length of capsule c fits the usize of the build target.
Representable(c) == usizeBytes = 8 \/ c.fits4

\* The bytes of the first i capsules sent have all arrived.
Arrived(i) == Len(buf) >= SizeOfFirst(sent, i)

\* What decoding capsule c must give.
Expected(c) == IF c.type = 0 THEN OkSomeCapsule(c.payload) ELSE OkNone

\* C1: Round-trip. A Datagram capsule written by Capsule::encode, alone in
\* the buffer, decodes on a fresh cursor to Ok(Some(Capsule::Datagram)) with
\* the same payload, and the cursor has 0 bytes remaining.
RoundTrip ==
    (Fresh /\ Len(sent) = 1 /\ sent[1].src = "encode" /\ wire = <<>>)
        => /\ call.res = OkSomeCapsule(sent[1].payload)
           /\ Remaining(buf, decoder.offset) = 0

RoundTripWitness ==
    /\ Fresh /\ Len(sent) = 1 /\ sent[1].src = "encode" /\ wire = <<>>
    /\ Len(sent[1].payload) = LargeLen
    /\ call.res.kind = "OkSome"
    /\ Len(call.res.payload) = LargeLen

\* C2: Truncation safety. Capsule::decode on a fresh cursor over a strict
\* prefix of a complete capsule (of any type) returns Ok(None).
TruncationSafety ==
    (Fresh /\ Len(sent) >= 1 /\ Complete(sent[1]) /\ Len(buf) < Size(sent[1]))
        => call.res = OkNone

TruncationSafetyWitness ==
    /\ Fresh /\ Len(sent) >= 1 /\ Complete(sent[1])
    /\ Len(buf) > sent[1].hdr
    /\ Len(buf) < Size(sent[1])
    /\ call.res = OkNone

\* C3: Unknown-type skip. Capsule::decode on a fresh cursor holding a wholly
\* buffered capsule of a type other than 0x00 returns Ok(None) and leaves the
\* cursor advanced by the size of the type varint, the length varint and the
\* declared length: at the first byte after the capsule.
UnknownTypeSkip ==
    (Fresh /\ Len(sent) >= 1 /\ Complete(sent[1]) /\ sent[1].type # 0 /\ Arrived(1))
        => /\ call.res = OkNone
           /\ decoder.offset = sent[1].hdr + sent[1].declared

UnknownTypeSkipWitness ==
    /\ Fresh /\ Len(sent) >= 1 /\ Complete(sent[1]) /\ sent[1].type # 0
    /\ sent[1].hdr = 4
    /\ sent[1].declared = MaxPayloadLen
    /\ Len(buf) > Size(sent[1])
    /\ decoder.offset = Size(sent[1])
    /\ call.res = OkNone

\* C4: Overflow rejection. When type and length varints are buffered and the
\* declared length does not fit usize, Capsule::decode returns
\* Err(Error::HttpFrame), however many payload bytes are buffered.
OverflowRejection ==
    (Fresh /\ Len(sent) >= 1 /\ sent[1].declared = -1 /\ ~Representable(sent[1])
         /\ Len(buf) >= sent[1].hdr)
        => call.res = ErrHttpFrame

OverflowRejectionWitness ==
    /\ Fresh /\ Len(sent) >= 1 /\ sent[1].declared = -1 /\ ~Representable(sent[1])
    /\ Len(buf) > sent[1].hdr
    /\ call.res = ErrHttpFrame

\* C5, as stated: for every input whose capsule type is not 0x00, with any
\* declared length and any number of buffered bytes, Capsule::decode returns
\* Ok(None).
UnknownTypeNeverErr ==
    (Fresh /\ Len(sent) >= 1 /\ sent[1].type # 0) => call.res = OkNone

\* C5, amended: for every input whose capsule type is not 0x00 and whose
\* declared length, where the cursor holds it, fits usize, Capsule::decode
\* returns Ok(None).
UnknownTypeNeverErrRepresentable ==
    (Fresh /\ Len(sent) >= 1 /\ sent[1].type # 0
         /\ (Representable(sent[1]) \/ Len(buf) < sent[1].hdr))
        => call.res = OkNone

UnknownTypeNeverErrWitness ==
    /\ Fresh /\ Len(sent) >= 1 /\ sent[1].type # 0
    /\ usizeBytes = 4
    /\ sent[1].declared = -1 /\ sent[1].fits4
    /\ Len(buf) > sent[1].hdr
    /\ call.res = OkNone

\* C6: Frame-adapter type filtering. Frame::is_known_type(t) is true exactly
\* for t = HFrameType(0x00), and Frame::decode of any other frame type
\* returns Ok(None), whatever frame_len and data are.
TypeFiltering ==
    /\ call.op = "is_known_type" => (call.known <=> call.ftype = 0)
    /\ (call.op = "frame" /\ call.ftype # 0) => call.res = OkNone

TypeFilteringWitness ==
    /\ call.op = "frame" /\ call.ftype = 153 /\ call.present
    /\ Len(sent) >= 1 /\ sent[1].type = 0 /\ Len(sent[1].payload) > 0 /\ Arrived(1)
    /\ call.res = OkNone

\* C7: the frame adapter mirrors the codec. For the Datagram frame type,
\* Frame::decode returns Ok(None) when data is absent; when data is present
\* it returns what Capsule::decode on a fresh cursor over data returns, with
\* Capsule::Datagram turned into Frame::Datagram of the same payload, Ok(None)
\* kept and an error returned unchanged.
AdapterMirrorsCodec ==
    (call.op = "frame" /\ call.ftype = 0)
        => IF ~call.present
           THEN call.res = OkNone
           ELSE LET capsule == CapsuleDecode(buf, 0, usizeBytes).res IN
                /\ capsule.kind = "OkSome" => call.res = OkSomeFrame(capsule.payload)
                /\ capsule.kind = "OkNone" => call.res = OkNone
                /\ capsule.kind = "Err" => call.res = capsule
                /\ capsule.kind \in {"OkSome", "OkNone", "Err"}

AdapterMirrorsCodecWitness ==
    /\ call.op = "frame" /\ call.ftype = 0 /\ call.present
    /\ Len(sent) >= 1 /\ sent[1].type = 0 /\ Arrived(1)
    /\ call.res = OkSomeFrame(Payload(MaxPayloadLen))

\* C8: Incremental retry. While the bytes of a Datagram capsule arrive in
\* chunks, every Capsule::decode on a fresh cursor over what has accumulated
\* returns Ok(None) as long as a byte of the capsule is missing, and
\* Ok(Some(Datagram)) with the whole payload once all have arrived.
IncrementalRetry ==
    (Fresh /\ Len(sent) >= 1 /\ sent[1].type = 0 /\ Complete(sent[1]))
        => IF Arrived(1)
           THEN call.res = OkSomeCapsule(sent[1].payload)
           ELSE call.res = OkNone

IncrementalRetryWitness ==
    /\ Fresh /\ Len(sent) = 1 /\ sent[1].type = 0 /\ Complete(sent[1])
    /\ Len(sent[1].payload) = MaxPayloadLen
    /\ wire = <<>>
    /\ call.res = OkSomeCapsule(sent[1].payload)

\* C9: Sequential decoding. On a cursor over the concatenation of complete
\* capsules, the k-th Capsule::decode consumes exactly the k-th capsule and
\* returns its payload if it is a Datagram and Ok(None) otherwise; after as
\* many calls as there are capsules the cursor has 0 bytes remaining.
SequentialDecoding ==
    (/\ decoder.live
     /\ wire = <<>>
     /\ \A i \in 1..Len(sent) : Complete(sent[i])
     /\ decoder.calls <= Len(sent))
        => /\ decoder.offset = SizeOfFirst(sent, decoder.calls)
           /\ call.res = Expected(sent[decoder.calls])
           /\ decoder.calls = Len(sent) => Remaining(buf, decoder.offset) = 0

SequentialDecodingWitness ==
    /\ decoder.live /\ wire = <<>>
    /\ Len(sent) = MaxCapsules
    /\ \A i \in 1..Len(sent) : Complete(sent[i])
    /\ decoder.calls = Len(sent)
    /\ sent[1].type = 0 /\ Len(sent[1].payload) > 0
    /\ sent[Len(sent)].type = 0 /\ Len(sent[Len(sent)].payload) > 0
    /\ call.res = OkSomeCapsule(sent[Len(sent)].payload)
    /\ Remaining(buf, decoder.offset) = 0

\* C10: the only error of Capsule::decode (and so of Frame::decode) is the
\* failed conversion of the declared length to usize: a call returns Err only
\* on a target with a 4-byte usize and with a capsule in the buffer whose
\* declared length does not fit it; the read of the payload never fails and
\* skip never panics.
OnlyOverflowErrs ==
    /\ call.res.kind # "Panic"
    /\ call.res.kind = "Err"
           => /\ call.res = ErrHttpFrame
              /\ usizeBytes = 4
              /\ \E i \in 1..Len(sent) :
                     /\ sent[i].declared = -1 /\ ~sent[i].fits4
                     /\ Len(buf) >= SizeOfFirst(sent, i - 1) + sent[i].hdr

OnlyOverflowErrsWitness ==
    /\ call.op = "frame" /\ call.ftype = 0 /\ call.present
    /\ usizeBytes = 4
    /\ Len(sent) >= 1 /\ sent[1].declared = -1 /\ sent[1].fits4
    /\ Len(buf) > sent[1].hdr
    /\ call.res = OkNone

====
